---- MODULE Spec2Model ----
(***************************************************************************)
(* A model of pyqstrat/pq_types.py: the Order life cycle (Order.fill,      *)
(* Order.request_cancel, Order.cancel and the constructors of the order    *)
(* variants), the process-wide name registries of ContractGroup and        *)
(* Contract, the construction of a Trade and Price.vw_mid.                 *)
(*                                                                         *)
(* Python floats are modelled as tagged values: a finite value is a whole  *)
(* number of units, next to NaN, +inf and -inf.  A finite result is        *)
(* rounded to MantissaBits significant bits, half to even, and becomes an  *)
(* infinity beyond MaxFloat, as IEEE arithmetic does with 53 bits and      *)
(* 1.8e308; on the small whole numbers most of the model draws the         *)
(* arithmetic is exact.  Fractions of a unit, and with them underflow, lie *)
(* outside the model.                                                      *)
(***************************************************************************)
EXTENDS Integers, Sequences, FiniteSets, TLC

\* ------------------------------------------------------------------ bounds

\* Largest magnitude of a finite order or fill quantity.
MaxQty == 3

\* Significant bits of a float, and the largest finite float.
MantissaBits == 24
MaxFloat == 2^30

\* Accepted fills counted per order in the history, and allowed on the
\* orders with quantities beyond the exact range.
MaxFills == 3

\* ------------------------------------------------------------------ floats

NaN == [k |-> "nan", v |-> 0]
PInf == [k |-> "inf", v |-> 1]
NInf == [k |-> "inf", v |-> -1]
Fin(n) == [k |-> "fin", v |-> n]
Zero == Fin(0)

Abs(n) == IF n < 0 THEN -n ELSE n
Max(a, b) == IF a >= b THEN a ELSE b
Sign(n) == IF n > 0 THEN 1 ELSE IF n < 0 THEN -1 ELSE 0

\* The spacing of the floats around a magnitude n, found from spacing u upwards.
RECURSIVE Ulp(_, _)
Ulp(n, u) == IF n \div u < 2^MantissaBits THEN u ELSE Ulp(n, 2 * u)

\* The float nearest to the whole number n, half to even.
Round(n) ==
    LET a == Abs(n)
        u == Ulp(a, 1)
        m == a \div u
        r == a % u
    IN  Sign(n) * (IF 2 * r > u \/ (2 * r = u /\ m % 2 = 1) THEN (m + 1) * u ELSE m * u)

\* The float sum of two finite values: rounded, an infinity beyond MaxFloat.
Plus(x, y) ==
    IF x > 0 /\ y > 0 /\ x > MaxFloat - y THEN PInf
    ELSE IF x < 0 /\ y < 0 /\ x < (-MaxFloat) - y THEN NInf
         ELSE Fin(Round(x + y))

\* The float product of two finite values: rounded, an infinity beyond MaxFloat.
Times(x, y) ==
    IF x = 0 \/ y = 0 THEN Zero
    ELSE IF Abs(x) > MaxFloat \div Abs(y)
         THEN [k |-> "inf", v |-> Sign(x) * Sign(y)]
         ELSE Fin(Round(x * y))

\* math.isnan
isnan(x) == x.k = "nan"

\* np.isfinite
isfinite(x) == x.k = "fin"

\* float multiplication: NaN propagates, inf * 0 is NaN
FMul(a, b) ==
    IF isnan(a) \/ isnan(b) THEN NaN
    ELSE IF a.k = "inf" \/ b.k = "inf"
         THEN IF Sign(a.v) * Sign(b.v) = 0 THEN NaN
              ELSE [k |-> "inf", v |-> Sign(a.v) * Sign(b.v)]
         ELSE Times(a.v, b.v)

\* float subtraction: NaN propagates, inf - inf is NaN
FSub(a, b) ==
    IF isnan(a) \/ isnan(b) THEN NaN
    ELSE IF a.k = "inf"
         THEN IF b.k = "inf" /\ b.v = a.v THEN NaN ELSE a
         ELSE IF b.k = "inf" THEN [k |-> "inf", v |-> -b.v]
              ELSE Plus(a.v, -b.v)

\* abs() of a float
FAbs(a) ==
    IF isnan(a) THEN NaN
    ELSE IF a.k = "inf" THEN PInf
         ELSE Fin(Abs(a.v))

\* a <= b on floats: every comparison with NaN is False
FLe(a, b) ==
    IF isnan(a) \/ isnan(b) THEN FALSE
    ELSE IF a.k = "inf" THEN a.v = -1 \/ (b.k = "inf" /\ b.v = 1)
         ELSE IF b.k = "inf" THEN b.v = 1
              ELSE a.v <= b.v

\* math.isclose defaults: rel_tol = 1e-09 (kept as its inverse), abs_tol = 0.0
RelTolInv == 1000000000
AbsTol == 0

\* math.isclose(a, b): NaN is close to nothing, equal values are close, an
\* infinity is close only to itself, otherwise
\* |a - b| <= max(rel_tol * max(|a|, |b|), abs_tol).
\* For whole d and m, d <= rel_tol * m  iff  d <= m \div RelTolInv.
isclose(a, b) ==
    IF isnan(a) \/ isnan(b) THEN FALSE
    ELSE IF a = b THEN TRUE
         ELSE IF a.k = "inf" \/ b.k = "inf" THEN FALSE
              ELSE Abs(a.v - b.v) <= Max(Max(Abs(a.v), Abs(b.v)) \div RelTolInv, AbsTol)

\* pyqstrat.pq_utils.assert_(condition, msg): the call returns when the
\* condition holds and raises otherwise.
assert_(condition) == condition

\* ------------------------------------------------------------------ state

VARIABLES
    order,          \* the Order under study, or NoOrder before construction
    call,           \* the last call on the order: its name, arguments, outcome
    prevOp,         \* history: the name of the call before the last one
    everFilled,     \* history: the order's status has been FILLED
    hist,           \* history: the constructed qty, the sum and the number (up to
                    \* MaxFills) of the accepted fills, whether every subtraction
                    \* in them was exact, whether request_cancel was called and
                    \* the qty at that call
    returned,       \* what the last call on the order returned
    trade,          \* the Trade under study, or NoTrade before construction
    price,          \* the Price under study, or NoPrice before construction
    priceCall,      \* the last call on the price: its name and what it returned
    group_names,    \* ContractGroup._group_names
    symbol_names,   \* Contract._symbol_names
    groups,         \* the ContractGroup objects, in creation order
    contracts,      \* the Contract objects returned by Contract.create
    regCall         \* the last registry call: its name, its symbol or group name, its outcome

orderVars == <<order, call, prevOp, everFilled, hist, returned>>
regVars == <<group_names, symbol_names, groups, contracts, regCall>>
priceVars == <<price, priceCall>>
vars == <<order, call, prevOp, everFilled, hist, returned, trade, price, priceCall,
          group_names, symbol_names, groups, contracts, regCall>>

\* What the calls on an order, and what the registry calls, leave alone.
besideOrder == <<trade, priceVars, regVars>>
besideRegistry == <<orderVars, trade, priceVars>>

\* ------------------------------------------------------------------ orders

\* class OrderStatus
OPEN == "OPEN"
PARTIALLY_FILLED == "PARTIALLY_FILLED"
FILLED == "FILLED"
CANCEL_REQUESTED == "CANCEL_REQUESTED"
CANCELLED == "CANCELLED"
OrderStatus == {OPEN, PARTIALLY_FILLED, FILLED, CANCEL_REQUESTED, CANCELLED}

NoOrder == [kind |-> "none", qty |-> NaN, status |-> OPEN, close_qty |-> NaN, reopen_qty |-> NaN]
NoCall == [op |-> "none", args |-> <<>>, raised |-> "none"]
NoHist == [Q |-> NaN, filled |-> 0, accepted |-> 0, exact |-> TRUE,
           requested |-> FALSE, reqQty |-> NaN]

\* The quantities a caller passes: NaN (also what an omitted argument
\* defaults to), the infinities, zero and the finite values up to MaxQty.
Floats == {NaN, PInf, NInf} \cup {Fin(n) : n \in -MaxQty..MaxQty}

\* The close and reopen quantities a caller passes to RollOrder.
RollQtys == {NaN, PInf, NInf, Zero, Fin(1), Fin(-1)}

Exists == order.kind # "none"

\* Variant of qty_rejected that lets an infinite qty through.
qty_rejected_nan_or_zero(qty) == isnan(qty) \/ isclose(qty, Zero)

\* The check shared by MarketOrder, LimitOrder and StopLimitOrder.__post_init__
qty_rejected(qty) == ~isfinite(qty) \/ isclose(qty, Zero)

\* RollOrder.__post_init__
roll_rejected(close_qty, reopen_qty) ==
    \/ ~isfinite(close_qty) \/ isclose(close_qty, Zero)
    \/ ~isfinite(reopen_qty) \/ isclose(reopen_qty, Zero)

\* The dataclass-generated __init__ followed by __post_init__: status takes its
\* default, and a raise leaves no order behind.
Construct(kind, qty, close_qty, reopen_qty, rejected, args) ==
    /\ IF rejected
       THEN /\ order' = order
            /\ call' = [op |-> kind, args |-> args, raised |-> "ValueError"]
            /\ hist' = hist
       ELSE /\ order' = [kind |-> kind, qty |-> qty, status |-> OPEN,
                         close_qty |-> close_qty, reopen_qty |-> reopen_qty]
            /\ call' = [op |-> kind, args |-> args, raised |-> "none"]
            /\ hist' = [NoHist EXCEPT !.Q = qty]
    /\ prevOp' = call.op
    /\ returned' = "None"
    /\ UNCHANGED <<everFilled, besideOrder>>

\* class MarketOrder
MarketOrder(qty) ==
    /\ ~Exists
    /\ Construct("MarketOrder", qty, NaN, NaN, qty_rejected(qty), <<qty>>)

\* class LimitOrder
LimitOrder(qty) ==
    /\ ~Exists
    /\ Construct("LimitOrder", qty, NaN, NaN, qty_rejected(qty), <<qty>>)

\* class StopLimitOrder
StopLimitOrder(qty) ==
    /\ ~Exists
    /\ Construct("StopLimitOrder", qty, NaN, NaN, qty_rejected(qty), <<qty>>)

\* class RollOrder: qty is the inherited field, NaN unless the caller passes it
RollOrder(qty, close_qty, reopen_qty) ==
    /\ ~Exists
    /\ Construct("RollOrder", qty, close_qty, reopen_qty,
                 roll_rejected(close_qty, reopen_qty), <<qty, close_qty, reopen_qty>>)

\* Variant of is_open_value that leaves out CANCEL_REQUESTED.
is_open_value_no_request == order.status \in {OPEN, PARTIALLY_FILLED}

\* Order.is_open: the value returned
is_open_value == order.status \in {OPEN, CANCEL_REQUESTED, PARTIALLY_FILLED}

\* Order.is_open
is_open ==
    /\ Exists
    /\ returned' = is_open_value
    /\ call' = [op |-> "is_open", args |-> <<>>, raised |-> "none"]
    /\ prevOp' = call.op
    /\ UNCHANGED <<order, everFilled, hist, besideOrder>>

\* Variant of request_cancel that marks only an order nothing was filled of.
request_cancel_open_only ==
    /\ Exists
    /\ order' = IF order.status = OPEN THEN [order EXCEPT !.status = CANCEL_REQUESTED] ELSE order
    /\ call' = [op |-> "request_cancel", args |-> <<>>, raised |-> "none"]
    /\ prevOp' = call.op
    /\ hist' = IF hist.requested THEN hist
               ELSE [hist EXCEPT !.requested = TRUE, !.reqQty = order.qty]
    /\ returned' = "None"
    /\ UNCHANGED <<everFilled, besideOrder>>

\* Order.request_cancel
request_cancel ==
    /\ Exists
    /\ order' = [order EXCEPT !.status = CANCEL_REQUESTED]
    /\ call' = [op |-> "request_cancel", args |-> <<>>, raised |-> "none"]
    /\ prevOp' = call.op
    /\ hist' = IF hist.requested THEN hist
               ELSE [hist EXCEPT !.requested = TRUE, !.reqQty = order.qty]
    /\ returned' = "None"
    /\ UNCHANGED <<everFilled, besideOrder>>

\* Order.cancel
cancel ==
    /\ Exists
    /\ order' = [order EXCEPT !.status = CANCELLED]
    /\ call' = [op |-> "cancel", args |-> <<>>, raised |-> "none"]
    /\ prevOp' = call.op
    /\ returned' = "None"
    /\ UNCHANGED <<everFilled, hist, besideOrder>>

\* Variant of fill_status_ok that turns away only the terminal statuses.
fill_status_ok_not_terminal == assert_(order.status \notin {FILLED, CANCELLED})

\* Variant of fill_status_ok that admits every status is_open() admits.
fill_status_ok_is_open == assert_(order.status \in {OPEN, PARTIALLY_FILLED, CANCEL_REQUESTED})

\* Order.fill, first assertion: the status admits a fill
fill_status_ok == assert_(order.status \in {OPEN, PARTIALLY_FILLED})

\* Order.fill: an omitted (NaN) quantity stands for the whole remaining qty
fill_effective_qty(fill_qty) == IF isnan(fill_qty) THEN order.qty ELSE fill_qty

\* Variant of fill_sign_ok that multiplies the magnitudes.
fill_sign_ok_abs(q) == assert_(FLe(Zero, FMul(FAbs(order.qty), FAbs(q))))

\* Order.fill, second assertion: self.qty * fill_qty >= 0
fill_sign_ok(q) == assert_(FLe(Zero, FMul(order.qty, q)))

\* Variant of fill_size_ok that forgets abs() around fill_qty.
fill_size_ok_no_abs(q) == assert_(FLe(q, FAbs(order.qty)))

\* Order.fill, third assertion: abs(fill_qty) <= abs(self.qty)
fill_size_ok(q) == assert_(FLe(FAbs(q), FAbs(order.qty)))

\* Variant of fill_new_status that tests new_qty <= 0 instead of closeness to 0.
fill_new_status_le(new_qty) == IF FLe(new_qty, Zero) THEN FILLED ELSE PARTIALLY_FILLED

\* Order.fill: the status after the remaining qty became new_qty
fill_new_status(new_qty) == IF isclose(new_qty, Zero) THEN FILLED ELSE PARTIALLY_FILLED

FillRaise(fill_qty, msg) ==
    /\ order' = order
    /\ call' = [op |-> "fill", args |-> <<fill_qty>>, raised |-> msg]
    /\ UNCHANGED <<everFilled, hist>>

\* Order.fill
fill(fill_qty) ==
    /\ Exists
    /\ LET q == fill_effective_qty(fill_qty)
           new_qty == FSub(order.qty, q)
       IN  IF ~fill_status_ok
           THEN FillRaise(fill_qty, "cannot fill an order in status")
           ELSE IF ~fill_sign_ok(q)
           THEN FillRaise(fill_qty, "cannot be opposite sign")
           ELSE IF ~fill_size_ok(q)
           THEN FillRaise(fill_qty, "cannot fill qty larger than order qty")
           ELSE /\ order' = [order EXCEPT !.qty = new_qty, !.status = fill_new_status(new_qty)]
                /\ call' = [op |-> "fill", args |-> <<fill_qty>>, raised |-> "none"]
                /\ everFilled' = (everFilled \/ fill_new_status(new_qty) = FILLED)
                /\ hist' = [hist EXCEPT
                        !.filled = IF isfinite(hist.Q) /\ isfinite(q) THEN @ + q.v ELSE @,
                        !.accepted = IF @ < MaxFills THEN @ + 1 ELSE @,
                        !.exact = @ /\ (isfinite(order.qty) /\ isfinite(q)
                                            => /\ isfinite(new_qty)
                                               /\ new_qty.v + q.v = order.qty.v)]
    /\ prevOp' = call.op
    /\ returned' = "None"
    /\ UNCHANGED besideOrder

\* Order.fill on an order that has accepted fewer than MaxFills fills
bounded_fill(fill_qty) ==
    /\ hist.accepted < MaxFills
    /\ fill(fill_qty)

\* ------------------------------------------------------------------ trades

NoTrade == [constructed |-> FALSE, qty |-> NaN, price |-> NaN, fee |-> NaN, commission |-> NaN]

\* The arguments a caller passes to Trade: quantities below, at and above the
\* largest order quantity, and non-finite values for each field.
TradeQtys == {NaN, PInf, Fin(-1), Fin(MaxQty), Fin(MaxQty + 1)}
TradePrices == {NaN, Fin(1), Fin(2)}
TradeFees == {NInf, Zero, Fin(1)}
TradeCommissions == {NaN, Zero}

\* Trade.__init__: the four assertions
trade_args_ok(qty, price_, fee, commission) ==
    /\ assert_(isfinite(qty))
    /\ assert_(isfinite(price_))
    /\ assert_(isfinite(fee))
    /\ assert_(isfinite(commission))

\* Variant of Trade.__init__ that also books the trade's qty on the order.
Trade_filling_order(qty, price_, fee, commission) ==
    /\ Exists
    /\ ~trade.constructed
    /\ IF ~trade_args_ok(qty, price_, fee, commission)
       THEN /\ trade' = trade
            /\ order' = order
            /\ call' = [op |-> "Trade", args |-> <<qty, price_, fee, commission>>,
                        raised |-> "assert_"]
       ELSE /\ trade' = [constructed |-> TRUE, qty |-> qty, price |-> price_,
                         fee |-> fee, commission |-> commission]
            /\ order' = [order EXCEPT !.qty = FSub(@, qty)]
            /\ call' = [op |-> "Trade", args |-> <<qty, price_, fee, commission>>,
                        raised |-> "none"]
    /\ prevOp' = call.op
    /\ returned' = "None"
    /\ UNCHANGED <<everFilled, hist, priceVars, regVars>>

\* Trade.__init__, with the existing order as its order argument
Trade(qty, price_, fee, commission) ==
    /\ Exists
    /\ ~trade.constructed
    /\ IF ~trade_args_ok(qty, price_, fee, commission)
       THEN /\ trade' = trade
            /\ call' = [op |-> "Trade", args |-> <<qty, price_, fee, commission>>,
                        raised |-> "assert_"]
       ELSE /\ trade' = [constructed |-> TRUE, qty |-> qty, price |-> price_,
                         fee |-> fee, commission |-> commission]
            /\ call' = [op |-> "Trade", args |-> <<qty, price_, fee, commission>>,
                        raised |-> "none"]
    /\ prevOp' = call.op
    /\ returned' = "None"
    /\ UNCHANGED <<order, everFilled, hist, priceVars, regVars>>

\* ------------------------------------------------------------------ prices

\* Largest finite bid or ask, and largest bid_size or ask_size.
MaxPrice == 2
MaxSize == 2

NoPrice == [constructed |-> FALSE, bid |-> NaN, ask |-> NaN, bid_size |-> 0, ask_size |-> 0]

\* The bid and ask a caller passes, and the sizes (-1 is the size of Price.invalid()).
PriceVals == {NaN, PInf, NInf} \cup {Fin(n) : n \in 0..MaxPrice}
Sizes == -1..MaxSize

\* float addition: NaN propagates, inf + -inf is NaN
FAdd(a, b) ==
    IF isnan(a) \/ isnan(b) THEN NaN
    ELSE IF a.k = "inf"
         THEN IF b.k = "inf" /\ b.v # a.v THEN NaN ELSE a
         ELSE IF b.k = "inf" THEN b
              ELSE Plus(a.v, b.v)

RECURSIVE GCD(_, _)
GCD(a, b) == IF b = 0 THEN a ELSE GCD(b, a % b)

\* A quotient: a fraction v / d in lowest terms with d > 0, or NaN or an infinity.
Quotient(k, v, d) == [k |-> k, v |-> v, d |-> d]
QNaN == Quotient("nan", 0, 1)

\* float division a / n by a whole n # 0
FDiv(a, n) ==
    IF isnan(a) THEN QNaN
    ELSE IF a.k = "inf" THEN Quotient("inf", a.v * Sign(n), 1)
         ELSE LET g == GCD(Abs(a.v), Abs(n))
              IN  Quotient("fin", Sign(n) * (a.v \div g), Abs(n) \div g)

\* The dataclass-generated Price.__init__: no argument is checked
Price(bid, ask, bid_size, ask_size) ==
    /\ ~price.constructed
    /\ price' = [constructed |-> TRUE, bid |-> bid, ask |-> ask,
                 bid_size |-> bid_size, ask_size |-> ask_size]
    /\ priceCall' = [op |-> "Price", returned |-> "None"]
    /\ UNCHANGED <<orderVars, trade, regVars>>

\* Price.invalid
Price_invalid ==
    /\ ~price.constructed
    /\ price' = [constructed |-> TRUE, bid |-> NaN, ask |-> NaN,
                 bid_size |-> -1, ask_size |-> -1]
    /\ priceCall' = [op |-> "Price.invalid", returned |-> "None"]
    /\ UNCHANGED <<orderVars, trade, regVars>>

\* Variant of vw_mid_value that weights each side by its own size.
vw_mid_value_own_size ==
    IF price.bid_size + price.ask_size = 0 THEN QNaN
    ELSE FDiv(FAdd(FMul(price.bid, Fin(price.bid_size)), FMul(price.ask, Fin(price.ask_size))),
              price.bid_size + price.ask_size)

\* Price.vw_mid: the value returned
vw_mid_value ==
    IF price.bid_size + price.ask_size = 0 THEN QNaN
    ELSE FDiv(FAdd(FMul(price.bid, Fin(price.ask_size)), FMul(price.ask, Fin(price.bid_size))),
              price.bid_size + price.ask_size)

\* Price.vw_mid
vw_mid ==
    /\ price.constructed
    /\ priceCall' = [op |-> "vw_mid", returned |-> vw_mid_value]
    /\ UNCHANGED <<price, orderVars, trade, regVars>>

\* --------------------------------------------------------------- registry

\* The arguments the factories are called with.  The empty string is the
\* symbol that fails the first assertion of Contract.create.
Names == {"G", "H"}
Symbols == {"", "A", "B"}
Multipliers == {-1, 0, 1, 50}

\* expiry arguments: None, a datetime.datetime, a np.datetime64, and a value of
\* another type
NoExpiry == [type |-> "None", t |-> 0]
Expiries == {NoExpiry, [type |-> "datetime", t |-> 1],
             [type |-> "datetime64", t |-> 1], [type |-> "str", t |-> 1]}

\* Most ContractGroup and Contract objects, taken together, that a run creates.
MaxObjects == 3

RegCall(op, name, raised) == [op |-> op, name |-> name, raised |-> raised]

\* Variant of ContractGroup.clear that resets the symbols as well.
ContractGroup_clear_all ==
    /\ group_names' = {}
    /\ symbol_names' = {}
    /\ regCall' = RegCall("ContractGroup.clear", "", "none")
    /\ UNCHANGED <<groups, contracts, besideRegistry>>

\* ContractGroup.clear
ContractGroup_clear ==
    /\ group_names' = {}
    /\ regCall' = RegCall("ContractGroup.clear", "", "none")
    /\ UNCHANGED <<symbol_names, groups, contracts, besideRegistry>>

\* ContractGroup.create: the duplicate check
name_taken(name) == name \in group_names

\* ContractGroup.create
ContractGroup_create(name) ==
    /\ IF name_taken(name)
       THEN /\ regCall' = RegCall("ContractGroup.create", name, "already exists")
            /\ UNCHANGED <<group_names, groups>>
       ELSE /\ Len(groups) + Len(contracts) < MaxObjects
            /\ group_names' = group_names \cup {name}
            /\ groups' = Append(groups, [name |-> name, contracts |-> {},
                                         contracts_by_symbol |-> <<>>])
            /\ regCall' = RegCall("ContractGroup.create", name, "none")
    /\ UNCHANGED <<symbol_names, contracts, besideRegistry>>

\* Variant of add_contract that leaves the symbol index alone.
add_contract_set_only(group, c, symbol) == [group EXCEPT !.contracts = @ \cup {c}]

\* ContractGroup.add_contract: the group after adding contract c (an index
\* into contracts) whose symbol is symbol
add_contract(group, c, symbol) ==
    [group EXCEPT
        !.contracts = @ \cup {c},
        !.contracts_by_symbol =
            [s \in (DOMAIN @) \cup {symbol} |-> IF s = symbol THEN c ELSE @[s]]]

\* ContractGroup.add_contract called on the group at index group with the
\* contract at index contract
ContractGroup_add_contract(group, contract) ==
    /\ group \in 1..Len(groups)
    /\ contract \in 1..Len(contracts)
    /\ groups' = [groups EXCEPT ![group] =
                     add_contract(@, contract, contracts[contract].symbol)]
    /\ regCall' = RegCall("add_contract", contracts[contract].symbol, "none")
    /\ UNCHANGED <<group_names, symbol_names, contracts, besideRegistry>>

\* ContractGroup.get_contract: the contract's index, 0 for None
get_contract(group, symbol) ==
    IF symbol \in DOMAIN group.contracts_by_symbol
    THEN group.contracts_by_symbol[symbol]
    ELSE 0

\* Contract.create, first assertion
symbol_ok(symbol) == assert_(symbol \in STRING /\ symbol # "")

\* Contract.create: the duplicate check
symbol_taken(symbol) == symbol \in symbol_names

\* Variant of multiplier_ok that lets a zero multiplier through.
multiplier_ok_or_zero(multiplier) == assert_(multiplier >= 0)

\* Contract.create: assert_(multiplier > 0)
multiplier_ok(multiplier) == assert_(multiplier > 0)

\* Contract.create: the assertion on the type of expiry
expiry_ok(expiry) == assert_(expiry.type \in {"None", "datetime", "datetime64"})

\* Contract.create: a datetime.datetime becomes a np.datetime64
normalize_expiry(expiry) ==
    IF expiry.type = "datetime" THEN [type |-> "datetime64", t |-> expiry.t] ELSE expiry

\* Contract.create; contract_group is an index into groups
Contract_create(symbol, contract_group, expiry, multiplier) ==
    /\ contract_group \in 1..Len(groups)
    /\ IF ~symbol_ok(symbol)
       THEN /\ regCall' = RegCall("Contract.create", symbol, "assert_ symbol")
            /\ UNCHANGED <<symbol_names, groups, contracts>>
       ELSE IF symbol_taken(symbol)
       THEN /\ regCall' = RegCall("Contract.create", symbol, "already exists")
            /\ UNCHANGED <<symbol_names, groups, contracts>>
       ELSE /\ symbol_names' = symbol_names \cup {symbol}
            /\ IF ~multiplier_ok(multiplier)
               THEN /\ regCall' = RegCall("Contract.create", symbol, "assert_ multiplier")
                    /\ UNCHANGED <<groups, contracts>>
               ELSE IF ~expiry_ok(expiry)
               THEN /\ regCall' = RegCall("Contract.create", symbol, "assert_ expiry")
                    /\ UNCHANGED <<groups, contracts>>
               ELSE /\ Len(groups) + Len(contracts) < MaxObjects
                    /\ contracts' = Append(contracts,
                          [symbol |-> symbol, expiry |-> normalize_expiry(expiry),
                           multiplier |-> multiplier, contract_group |-> contract_group])
                    /\ groups' = [groups EXCEPT ![contract_group] =
                                     add_contract(@, Len(contracts) + 1, symbol)]
                    /\ regCall' = RegCall("Contract.create", symbol, "none")
    /\ UNCHANGED <<group_names, besideRegistry>>

\* Variant of Contract.clear whose new set never reaches the class attribute.
Contract_clear_local ==
    /\ regCall' = RegCall("Contract.clear", "", "none")
    /\ UNCHANGED <<symbol_names, group_names, groups, contracts, besideRegistry>>

\* Contract.clear
Contract_clear ==
    /\ symbol_names' = {}
    /\ regCall' = RegCall("Contract.clear", "", "none")
    /\ UNCHANGED <<group_names, groups, contracts, besideRegistry>>

\* ----------------------------------------------------------- specifications

OrderInit ==
    /\ order = NoOrder
    /\ call = NoCall
    /\ prevOp = "none"
    /\ everFilled = FALSE
    /\ hist = NoHist
    /\ returned = "None"

RegInit ==
    /\ group_names = {}
    /\ symbol_names = {}
    /\ groups = <<>>
    /\ contracts = <<>>
    /\ regCall = RegCall("none", "", "none")

TradeInit == trade = NoTrade

PriceInit ==
    /\ price = NoPrice
    /\ priceCall = [op |-> "none", returned |-> "None"]

Init == OrderInit /\ RegInit /\ TradeInit /\ PriceInit

\* The calls on one order.
Next ==
    \/ \E qty \in Floats : MarketOrder(qty)
    \/ \E qty \in Floats : LimitOrder(qty)
    \/ \E qty \in Floats : StopLimitOrder(qty)
    \/ \E qty \in Floats, close_qty, reopen_qty \in RollQtys :
            RollOrder(qty, close_qty, reopen_qty)
    \/ \E fill_qty \in Floats : fill(fill_qty)
    \/ request_cancel
    \/ cancel
    \/ is_open

Spec == Init /\ [][Next]_vars

\* The factory and reset calls of ContractGroup and Contract.
RegNext ==
    \/ ContractGroup_clear
    \/ \E name \in Names : ContractGroup_create(name)
    \/ \E symbol \in Symbols, contract_group \in 1..MaxObjects, expiry \in Expiries,
          multiplier \in Multipliers :
            Contract_create(symbol, contract_group, expiry, multiplier)
    \/ Contract_clear

RegSpec == Init /\ [][RegNext]_vars

\* The same calls with the default expiry and multiplier, and add_contract.
IndexNext ==
    \/ ContractGroup_clear
    \/ \E name \in Names : ContractGroup_create(name)
    \/ \E symbol \in Symbols, contract_group \in 1..MaxObjects :
            Contract_create(symbol, contract_group, NoExpiry, 1)
    \/ \E group \in 1..MaxObjects, contract \in 1..MaxObjects :
            ContractGroup_add_contract(group, contract)
    \/ Contract_clear

IndexSpec == Init /\ [][IndexNext]_vars

\* A market order, the calls on it, and the construction of a Trade for it.
TradeNext ==
    \/ \E qty \in Floats : MarketOrder(qty)
    \/ \E fill_qty \in Floats : fill(fill_qty)
    \/ request_cancel
    \/ cancel
    \/ \E qty \in TradeQtys, price_ \in TradePrices, fee \in TradeFees,
          commission \in TradeCommissions :
            Trade(qty, price_, fee, commission)

TradeSpec == Init /\ [][TradeNext]_vars

\* The first even whole number above the exact range whose predecessor lies
\* half way between two floats, and the spacing of the floats below MaxFloat.
Wide == 2^MantissaBits + 2
Grain == MaxFloat \div 2^MantissaBits

\* Order quantities within and beyond the exact range, and fills of them.
FloatQtys == {Fin(MaxQty), Fin(Wide), Fin(-Wide), Fin(MaxFloat), Fin(-MaxFloat)}
FloatFills == {NaN, Zero, Fin(1), Fin(-1), Fin(MaxQty), Fin(Wide), Fin(Grain - 1),
               Fin(1 - Grain), Fin(MaxFloat - Grain), Fin(Grain - MaxFloat), Fin(MaxFloat)}

\* A market order with a quantity within or beyond the exact range and the
\* calls on it.
FloatNext ==
    \/ \E qty \in FloatQtys : MarketOrder(qty)
    \/ \E fill_qty \in FloatFills : bounded_fill(fill_qty)
    \/ request_cancel
    \/ cancel

FloatSpec == Init /\ [][FloatNext]_vars

\* The construction of a Price and the calls on it.
PriceNext ==
    \/ \E bid, ask \in PriceVals, bid_size, ask_size \in Sizes :
            Price(bid, ask, bid_size, ask_size)
    \/ Price_invalid
    \/ vw_mid

PriceSpec == Init /\ [][PriceNext]_vars

\* ------------------------------------------------------- claims on orders

FillErrors == {"cannot fill an order in status", "cannot be opposite sign",
               "cannot fill qty larger than order qty"}
ArgumentErrors == {"cannot be opposite sign", "cannot fill qty larger than order qty"}
Fillable == Exists /\ order.status \in {OPEN, PARTIALLY_FILLED}

\* C1: once the status is CANCELLED or FILLED no call changes it again.
C1_TerminalStatusKept ==
    [][(Exists /\ order.status \in {CANCELLED, FILLED}) => order'.status = order.status]_vars

\* C2: a fill on an order that is not OPEN or PARTIALLY_FILLED raises the status
\* error and leaves the order as it was; every fill after the order was FILLED
\* raises.
C2_FillRejectedOutsideOpen ==
    [][(call'.op = "fill" /\ Exists)
        => /\ order.status \notin {OPEN, PARTIALLY_FILLED}
                => (call'.raised = "cannot fill an order in status" /\ order' = order)
           /\ everFilled => (call'.raised \in FillErrors /\ order' = order)]_vars

C2_Witness ==
    /\ call.op = "fill"
    /\ call.raised = "cannot fill an order in status"
    /\ order.status = FILLED
    /\ everFilled

C4_ZeroFillRejected ==
    [][(/\ call'.op = "fill"
        /\ Fillable
        /\ order.qty.k = "fin" /\ order.qty # Zero
        /\ call'.args = <<Zero>>)
        => (call'.raised \in ArgumentErrors /\ order'.status = order.status)]_vars

C6_FillAllFills ==
    [][(call'.op = "fill" /\ Fillable /\ call'.args = <<NaN>>)
        => /\ call'.raised = "none"
           /\ order'.status = FILLED
           /\ order'.qty = Zero]_vars

\* C7: from OPEN, PARTIALLY_FILLED and CANCEL_REQUESTED request_cancel() succeeds
\* and gives CANCEL_REQUESTED, a cancel() that follows gives CANCELLED, and
\* neither changes the remaining qty.
C7_CancelPath ==
    [][/\ (/\ call'.op = "request_cancel"
           /\ Exists
           /\ order.status \in {OPEN, PARTIALLY_FILLED, CANCEL_REQUESTED})
            => /\ call'.raised = "none"
               /\ order'.status = CANCEL_REQUESTED
               /\ order'.qty = order.qty
       /\ (call'.op = "cancel" /\ Exists /\ order.status = CANCEL_REQUESTED)
            => /\ call'.raised = "none"
               /\ order'.status = CANCELLED
               /\ order'.qty = order.qty]_vars

C7_Witness ==
    /\ call.op = "cancel"
    /\ prevOp = "request_cancel"
    /\ order.status = CANCELLED
    /\ order.qty = Fin(1)
    /\ ~everFilled

\* ---------------------------------------------------- claims on registries

\* Arguments with which Contract.create is documented to succeed on a fresh symbol.
ValidArgs(symbol, expiry, multiplier) ==
    symbol # "" /\ multiplier > 0 /\ expiry.type \in {"None", "datetime", "datetime64"}

\* C8: a Contract.create or ContractGroup.create that raises leaves the
\* registered symbols, the registered group names and every group as they were.
C8_FailedCreateChangesNothing ==
    [][(regCall'.op \in {"Contract.create", "ContractGroup.create"} /\ regCall'.raised # "none")
        => /\ symbol_names' = symbol_names
           /\ group_names' = group_names
           /\ groups' = groups
           /\ contracts' = contracts]_vars

\* C9: a created symbol is registered and stays so until Contract.clear(); while
\* it is registered every Contract.create with it raises the duplicate error;
\* right after Contract.clear() a create with valid arguments succeeds.  The
\* same for group names, ContractGroup.create and ContractGroup.clear().
C9_UniqueUntilClear ==
    [][/\ regCall'.op = "Contract.create"
            => /\ regCall'.name \in symbol_names => regCall'.raised = "already exists"
               /\ regCall'.raised = "none" => regCall'.name \in symbol_names'
               /\ regCall.op = "Contract.clear"
                    => \A symbol \in Symbols, contract_group \in 1..MaxObjects,
                          expiry \in Expiries, multiplier \in Multipliers :
                            (/\ Contract_create(symbol, contract_group, expiry, multiplier)
                             /\ ValidArgs(symbol, expiry, multiplier))
                            => regCall'.raised = "none"
       /\ regCall'.op = "ContractGroup.create"
            => /\ regCall'.name \in group_names => regCall'.raised = "already exists"
               /\ regCall'.raised = "none" => regCall'.name \in group_names'
               /\ regCall.op = "ContractGroup.clear" => regCall'.raised = "none"
       /\ regCall'.op # "Contract.clear" => symbol_names \subseteq symbol_names'
       /\ regCall'.op # "ContractGroup.clear" => group_names \subseteq group_names'
       /\ regCall'.op = "Contract.clear" => symbol_names' = {}
       /\ regCall'.op = "ContractGroup.clear" => group_names' = {}]_vars

C9_Witness ==
    /\ regCall.op = "Contract.create"
    /\ regCall.raised = "none"
    /\ Len(contracts) = 2
    /\ contracts[1].symbol = contracts[2].symbol
    /\ regCall.name = contracts[2].symbol
    /\ symbol_names = {contracts[2].symbol}

\* C10: a symbol leaves the registered symbols only in Contract.clear() and a
\* group name leaves the registered names only in ContractGroup.clear();
\* Contract.clear() changes neither the registered names nor any group, and
\* ContractGroup.clear() does not change the registered symbols.
C10_RemovedOnlyByClear ==
    [][/\ \A s \in symbol_names : s \in symbol_names' \/ regCall'.op = "Contract.clear"
       /\ \A n \in group_names : n \in group_names' \/ regCall'.op = "ContractGroup.clear"
       /\ regCall'.op = "Contract.clear"
            => (group_names' = group_names /\ groups' = groups /\ contracts' = contracts)
       /\ regCall'.op = "ContractGroup.clear"
            => (symbol_names' = symbol_names /\ groups' = groups /\ contracts' = contracts)]_vars

C10_Witness ==
    /\ regCall.op = "Contract.clear"
    /\ symbol_names = {}
    /\ group_names # {}
    /\ \E g \in 1..Len(groups) : groups[g].contracts # {}

\* ------------------------------------------- claims on trades and is_open

\* C11: constructing a Trade for an order leaves the order as it was, whatever
\* the trade's qty; a constructed Trade holds the constructor's qty, price,
\* fee and commission, and no later call on the order changes them.
C11_TradeLeavesOrderAlone ==
    [][/\ call'.op = "Trade"
            => /\ order' = order
               /\ call'.raised = "none"
                    => /\ trade'.constructed
                       /\ <<trade'.qty, trade'.price, trade'.fee, trade'.commission>>
                            = call'.args
       /\ (trade.constructed /\ call'.op # "Trade") => trade' = trade]_vars

\* MarketOrder(MaxQty), Trade(MaxQty, 2, ...), fill(MaxQty): FILLED only now.
C11_Witness ==
    /\ order.kind = "MarketOrder"
    /\ prevOp = "Trade"
    /\ call = [op |-> "fill", args |-> <<Fin(MaxQty)>>, raised |-> "none"]
    /\ order.status = FILLED
    /\ hist.Q = Fin(MaxQty)
    /\ trade.constructed
    /\ trade.qty = Fin(MaxQty)
    /\ trade.price = Fin(2)

\* C12: is_open() returns true when the status is OPEN, PARTIALLY_FILLED or
\* CANCEL_REQUESTED, false when it is FILLED or CANCELLED, and changes nothing.
C12_IsOpenByStatus ==
    [][call'.op = "is_open"
        => /\ order.status \in {OPEN, PARTIALLY_FILLED, CANCEL_REQUESTED} => returned' = TRUE
           /\ order.status \in {FILLED, CANCELLED} => returned' = FALSE
           /\ order' = order]_vars

C12_Witness ==
    /\ call.op = "is_open"
    /\ prevOp = "request_cancel"
    /\ order.status = CANCEL_REQUESTED
    /\ returned = TRUE

\* C13: MarketOrder, LimitOrder and StopLimitOrder raise for a qty that is zero,
\* NaN or infinite and construct the order for every finite nonzero qty;
\* RollOrder raises when close_qty or reopen_qty is zero, NaN or infinite.
C13_ConstructionChecksQty ==
    [][/\ call'.op \in {"MarketOrder", "LimitOrder", "StopLimitOrder"}
            => LET qty == call'.args[1]
               IN  IF qty.k # "fin" \/ qty.v = 0
                   THEN call'.raised = "ValueError" /\ order' = NoOrder
                   ELSE /\ call'.raised = "none"
                        /\ order'.kind = call'.op
                        /\ order'.qty = qty
       /\ (/\ call'.op = "RollOrder"
           /\ \E i \in {2, 3} : call'.args[i].k # "fin" \/ call'.args[i].v = 0)
            => call'.raised = "ValueError" /\ order' = NoOrder]_vars

C13_Witness ==
    /\ call = [op |-> "LimitOrder", args |-> <<NInf>>, raised |-> "ValueError"]
    /\ prevOp = "RollOrder"
    /\ ~Exists

\* C16: once request_cancel() was called, every later fill raises the status
\* error, the remaining qty stays what it was at the request, and the status
\* is CANCEL_REQUESTED or CANCELLED.
C16_NoFillAfterCancelRequest ==
    [][/\ hist'.requested
            => /\ order'.status \in {CANCEL_REQUESTED, CANCELLED}
               /\ order'.qty = hist'.reqQty
       /\ (hist.requested /\ call'.op = "fill")
            => call'.raised = "cannot fill an order in status" /\ order' = order]_vars

\* request_cancel() on a partly filled order, cancel(), then a fill within the
\* remaining qty.
C16_Witness ==
    /\ hist.requested
    /\ hist.reqQty = Fin(1)
    /\ hist.filled = MaxQty - 1
    /\ prevOp = "cancel"
    /\ call = [op |-> "fill", args |-> <<Fin(1)>>, raised |-> "cannot fill an order in status"]
    /\ order.status = CANCELLED
    /\ order.qty = Fin(1)

\* ------------------------------------- claims on quantities beyond MaxQty

C19_NegligibleRemainderFills ==
    [][(/\ call'.op = "fill"
        /\ call'.raised = "none"
        /\ isfinite(hist.Q)
        /\ isfinite(order'.qty) /\ order'.qty # Zero
        /\ Abs(order'.qty.v) <= Abs(hist.Q.v) \div RelTolInv)
        => order'.status = FILLED]_vars

\* ------------------------------------ claims on multipliers and the index

\* C14: Contract.create with a fresh non-empty symbol (and a valid expiry)
\* returns a contract for every multiplier above 0 and raises the multiplier
\* assertion for every multiplier of 0 or less; every contract has a multiplier
\* above 0.  The step is matched against Contract.create with every expiry and
\* multiplier; the group is the one of the new contract, and the first one when
\* the call raised, which it does without looking at the group.
C14_MultiplierChecked ==
    [][/\ (/\ regCall'.op = "Contract.create"
           /\ regCall'.name # ""
           /\ regCall'.name \notin symbol_names)
            => LET g == IF Len(contracts') > Len(contracts)
                        THEN contracts'[Len(contracts')].contract_group
                        ELSE 1
               IN  \A e \in Expiries, m \in Multipliers :
                     \/ IF m <= 0
                        THEN regCall'.raised = "assert_ multiplier" /\ contracts' = contracts
                        ELSE e.type \in {"None", "datetime", "datetime64"}
                               => /\ regCall'.raised = "none"
                                  /\ Len(contracts') = Len(contracts) + 1
                                  /\ contracts'[Len(contracts')].multiplier = m
                     \/ ~Contract_create(regCall'.name, g, e, m)
       /\ \A c \in 1..Len(contracts') : contracts'[c].multiplier > 0]_vars

C14_Witness ==
    /\ regCall = RegCall("Contract.create", "B", "none")
    /\ Len(contracts) = 2
    /\ contracts[1].multiplier = 1
    /\ contracts[2].multiplier = 50
    /\ contracts[2].symbol = "B"

\* In every group the members of contracts are the values of
\* contracts_by_symbol and have different symbols, and every contract is what
\* its group returns for its symbol.
IndexConsistent ==
    /\ \A g \in 1..Len(groups) :
         LET G == groups[g]
         IN  /\ G.contracts = {G.contracts_by_symbol[sym] : sym \in DOMAIN G.contracts_by_symbol}
             /\ \A c1, c2 \in G.contracts :
                    c1 # c2 => contracts[c1].symbol # contracts[c2].symbol
    /\ \A c \in 1..Len(contracts) :
         get_contract(groups[contracts[c].contract_group], contracts[c].symbol) = c

\* add_contract of a contract the group already holds changes nothing.
AddContractIdempotent ==
    regCall'.op = "add_contract"
        => \A g \in 1..Len(groups), c \in 1..Len(contracts) :
             (ContractGroup_add_contract(g, c) /\ c \in groups[g].contracts)
                => groups' = groups

\* No two contracts created so far have the same symbol.
DistinctSymbols ==
    \A c1, c2 \in 1..Len(contracts) : c1 # c2 => contracts[c1].symbol # contracts[c2].symbol

\* C18 as stated: after every call the index of every group is consistent, and
\* add_contract of an already-added contract changes nothing.
C18_IndexConsistent ==
    [][IndexConsistent' /\ AddContractIdempotent]_vars

\* C18, amended: the same, as long as no symbol was created a second time
\* (which takes a Contract.clear() in between).
C18_IndexConsistentWhileDistinct ==
    [][DistinctSymbols' => (IndexConsistent' /\ AddContractIdempotent)]_vars

\* add_contract of a contract the group already holds, next to another one.
C18_Witness ==
    /\ regCall = RegCall("add_contract", "A", "none")
    /\ Len(groups) = 1
    /\ Len(contracts) = 2
    /\ groups[1].contracts = {1, 2}
    /\ DOMAIN groups[1].contracts_by_symbol = {"A", "B"}
    /\ get_contract(groups[1], "A") = 1

\* -------------------------------------------------------- claims on prices

\* The numerator of the volume-weighted mid of finite bid and ask, exactly.
WeightedSum == price.bid.v * price.ask_size + price.ask.v * price.bid_size

\* C15 as stated: vw_mid() is NaN exactly when bid_size + ask_size == 0, for
\* every Price, and is the weighted mean otherwise.
C15_NaNIffNoSize ==
    priceCall.op = "vw_mid"
        => LET r == priceCall.returned
               n == price.bid_size + price.ask_size
           IN  /\ r.k = "nan" <=> n = 0
               /\ (n # 0 /\ isfinite(price.bid) /\ isfinite(price.ask))
                    => r.v * n = r.d * WeightedSum

\* C15, amended: vw_mid() is NaN when bid_size + ask_size == 0 and when bid or
\* ask is NaN; with finite bid and ask and bid_size + ask_size # 0 it is the
\* finite weighted mean.
C15_NaNWithoutSizeOrPrice ==
    priceCall.op = "vw_mid"
        => LET r == priceCall.returned
               n == price.bid_size + price.ask_size
           IN  /\ n = 0 => r.k = "nan"
               /\ (isnan(price.bid) \/ isnan(price.ask)) => r.k = "nan"
               /\ (n # 0 /\ isfinite(price.bid) /\ isfinite(price.ask))
                    => r.k = "fin" /\ r.d > 0 /\ r.v * n = r.d * WeightedSum

\* vw_mid() of Price.invalid()
C15_Witness ==
    /\ priceCall.op = "vw_mid"
    /\ priceCall.returned.k = "nan"
    /\ isnan(price.bid) /\ isnan(price.ask)
    /\ price.bid_size = -1
    /\ price.ask_size = -1

====
